---- MODULE Spec2Model ----
(***************************************************************************)
(* TradieIQ client: the authenticated-session-to-view state machine and    *)
(* the live-data reconciliation loop of js/app_js.js, with the thin auth   *)
(* wrapper of js/auth_js_file.js.                                          *)
(*                                                                         *)
(* JavaScript runs every handler to completion, so each handler is one     *)
(* action.  The two asynchronous collaborators are modelled by what the    *)
(* application can observe of them:                                        *)
(*   - the Auth Gateway (firebase/auth): auth.currentUser, read by         *)
(*     getCurrentUser(), changes first; the onAuthStateChanged callback    *)
(*     runs later, with the gateway's current user.  Other handlers may    *)
(*     run in between.                                                     *)
(*   - the Job Store (firebase/firestore): an active onSnapshot listener   *)
(*     delivers snapshots of the documents whose userId is the one the     *)
(*     query was built with, until its unsubscribe function is called.     *)
(* An await splits a handler in two actions: the call and the resumption.  *)
(***************************************************************************)
EXTENDS Integers, Sequences, FiniteSets, TLC

\* ---------------------------------------------------------------- bounds
\* Documents one identity owns in the Job Store (and so the longest snapshot).
MaxJobs == 1
\* Subscriptions established in one run.
MaxSubs == 2
\* Records in the list the statistics are computed from, in StatsSpec.
MaxStatJobs == 2
\* Documents created with addDoc in one run.
MaxCreates == 1

\* ------------------------------------------------------------ value sets
Users == {"A", "B"}
\* `null` as an identity: no user (let currentUser = null).
NoUser == "none"
\* `null` as a selected job id (let currentJobId = null).
NoJob == 0
\* `null` as an unsubscribe function (let jobsUnsubscribe = null).
NoSub == 0
\* A field a document does not have.
Undefined == <<"undefined">>

Statuses == {"new", "quoted", "in_progress", "completed"}
Views == {"signIn", "dashboard", "jobDetail"}

\* Document ids are unique in the collection: identity A owns 1..MaxJobs,
\* identity B the next MaxJobs ids.
OldIds == 1..(2 * MaxJobs)
\* The ids addDoc gives to the documents it creates: never those of a
\* document that exists already.
NewIds == (2 * MaxJobs + 1)..(2 * MaxJobs + MaxCreates)
JobIds == OldIds \cup NewIds
\* The owner of a document that existed before.
OwnerOf(id) == IF id <= MaxJobs THEN "A" ELSE "B"

\* Strings whose characters matter are sequences of one-character strings.
V1500 == <<"$", "1", ",", "5", "0", "0">>
VAbc == <<"a", "b", "c">>
VDollar0 == <<"$", "0">>
\* The value string of the documents the subscriptions deliver; StatsSpec
\* exercises the statistics on all of ValueStrings.
SpecValues == {V1500}
\* The value strings the statistics are exercised on.
ValueStrings ==
  { Undefined, <<>>, V1500, VAbc, VDollar0, <<"$">>, <<"2", "5", "0">>,
    <<"1", ".", "5">>, <<"1", "2", "a">>, <<"-", "5">>, <<" ", "7">>,
    <<"$", "1", ",", "0", "0", "0", ".", "2", "5">>, <<".", "5">>, <<".">> }

VARIABLES
  currentView,     \* let currentView = 'loading'
  jobs,            \* let jobs = []             (the Job Cache)
  currentJobId,    \* let currentJobId = null
  currentUser,     \* let currentUser = null    (the Session Store)
  jobsUnsubscribe, \* let jobsUnsubscribe = null: the handle of a subscription
  loadingHidden,   \* loadingScreen.style.display = 'none'
  stats,           \* the text of the dashboard's statistics elements
  authCurrent,     \* auth.currentUser, what getCurrentUser() returns
  pending,         \* an onAuthStateChanged callback is scheduled
  subs,            \* the onSnapshot listeners established so far
  signOutPc,       \* where handleSignOut is: idle, awaiting, ok, failed
  createPc,        \* where createNewJob is
  request,         \* the jobData of the addDoc in flight
  notification,    \* notificationTitle.textContent: the last title shown
  trace,           \* what the last (de)activation of the cache did, in order
  store,           \* the documents addDoc has written to the Job Store
  jobsList,        \* jobsList.innerHTML: what renderJobs() last drew
  signInPc,        \* where handleSignIn is: idle, awaiting, returned
  signInResult,    \* what signInWithEmail returned to it
  signInBtn,       \* signInBtn.disabled
  signUpPc,        \* where handleSignUp is: idle, awaiting, returned
  signUpResult,    \* what signUpWithEmail returned to it
  attempts         \* gateway calls each auth wrapper made in its current call

vars ==
  << currentView, jobs, currentJobId, currentUser, jobsUnsubscribe,
     loadingHidden, stats, authCurrent, pending, subs, signOutPc,
     createPc, request, notification, trace, store, jobsList, signInPc,
     signInResult, signInBtn, signUpPc, signUpResult, attempts >>

\* The state of the sign-in form and of the sign-up dialogue.
formVars == << signInPc, signInResult, signInBtn, signUpPc, signUpResult >>

NoStats == [unset |-> TRUE]
NoRequest == [none |-> TRUE]
NoNote == "none"
\* jobsList before renderJobs() has run.
NoList == [drawn |-> "nothing", ids |-> <<>>]
\* No result: the wrapper has not returned.
NoResult == [none |-> TRUE]
\* No gateway call made by signInWithEmail, signUpWithEmail, signOutUser.
NoAttempts == [signIn |-> 0, signUp |-> 0, signOut |-> 0]

\* ------------------------------------------------- numbers and parseFloat
\* A JavaScript number is NaN or a decimal, kept in thousandths: the value
\* strings above carry at most three decimals, and toLocaleString() shows
\* at most three.
Scale == 10 * 10 * 10
NaN == [nan |-> TRUE, n |-> 0]
Num(k) == [nan |-> FALSE, n |-> k]
Plus(a, b) == IF a.nan \/ b.nan THEN NaN ELSE Num(a.n + b.n)

DigitChar == <<"0", "1", "2", "3", "4", "5", "6", "7", "8", "9">>
Digits == {"0", "1", "2", "3", "4", "5", "6", "7", "8", "9"}
DigitOf == [c \in Digits |-> (CHOOSE i \in 1..10 : DigitChar[i] = c) - 1]

RECURSIVE WhiteEnd(_, _)
\* The first index from i on at which s has no white space.
WhiteEnd(s, i) ==
  IF i <= Len(s) /\ s[i] = " " THEN WhiteEnd(s, i + 1) ELSE i

RECURSIVE DigitsEnd(_, _)
\* The first index from i on at which s has no digit.
DigitsEnd(s, i) ==
  IF i <= Len(s) /\ s[i] \in Digits THEN DigitsEnd(s, i + 1) ELSE i

RECURSIVE IntVal(_, _, _)
\* The number the digits s[i], ..., s[j-1] write.
IntVal(s, i, j) ==
  IF j <= i THEN 0 ELSE 10 * IntVal(s, i, j - 1) + DigitOf[s[j - 1]]

RECURSIVE FracVal(_, _, _, _)
\* The thousandths the decimals s[i], ..., s[j-1] write; unit is the weight
\* of s[i].
FracVal(s, i, j, unit) ==
  IF j <= i \/ unit = 0 THEN 0
  ELSE DigitOf[s[i]] * unit + FracVal(s, i + 1, j, unit \div 10)

\* parseFloat(string): leading white space is skipped, then the longest
\* prefix that is a decimal literal (sign, digits, point, digits) is read;
\* NaN when there is none.  (No exponent and no "Infinity" among the
\* characters used here.)
parseFloat(str) ==
  LET b == WhiteEnd(str, 1)
      signed == b <= Len(str) /\ str[b] \in {"-", "+"}
      sign == IF b <= Len(str) /\ str[b] = "-" THEN -1 ELSE 1
      i == IF signed THEN b + 1 ELSE b
      j == DigitsEnd(str, i)
      k == IF j <= Len(str) /\ str[j] = "." THEN DigitsEnd(str, j + 1) ELSE j + 1
  IN  IF (j - i) + (k - (j + 1)) = 0 THEN NaN
      ELSE Num(sign * (IntVal(str, i, j) * Scale
                       + FracVal(str, j + 1, k, Scale \div 10)))

\* value.replace(/[$,]/g, '')
StripMoney(str) == SelectSeq(str, LAMBDA c : c \notin {"$", ","})

\* parseFloat(job.value?.replace(/[$,]/g, '') || 0): an absent value and a
\* string that is empty once stripped are falsy, and parseFloat(0) is 0.
parsedValue(value) ==
  LET stripped == IF value = Undefined THEN <<>> ELSE StripMoney(value)
  IN  IF stripped = <<>> THEN Num(0) ELSE parseFloat(stripped)

\* The same, evaluated once for each value a record of the model can hold.
ParsedValues == [value \in ValueStrings |-> parsedValue(value)]

\* const value = parseFloat(...) for one job of the reduce.
jobValue(job) == ParsedValues[job.value]

RECURSIVE totalValue(_)
\* jobs.reduce((sum, job) => sum + value, 0)
totalValue(js) ==
  IF js = <<>> THEN Num(0)
  ELSE Plus(totalValue(SubSeq(js, 1, Len(js) - 1)), jobValue(js[Len(js)]))

\* ---------------------------------------------------- toLocaleString()
RECURSIVE IntDigits(_)
IntDigits(n) ==
  IF n < 10 THEN <<DigitChar[n + 1]>>
  ELSE IntDigits(n \div 10) \o <<DigitChar[(n % 10) + 1]>>

Pad3(k) ==
  << DigitChar[(k \div 100) + 1], DigitChar[((k \div 10) % 10) + 1],
     DigitChar[(k % 10) + 1] >>

RECURSIVE Grouped(_)
Grouped(n) ==
  IF n < 1000 THEN IntDigits(n)
  ELSE Grouped(n \div 1000) \o <<",">> \o Pad3(n % 1000)

RECURSIVE StripZeros(_)
StripZeros(s) ==
  IF s # <<>> /\ s[Len(s)] = "0" THEN StripZeros(SubSeq(s, 1, Len(s) - 1))
  ELSE s

Abs(k) == IF k < 0 THEN -k ELSE k

\* Number.prototype.toLocaleString() in the default (en-US) locale: groups
\* of three digits, at most three decimals, "NaN" for NaN.
toLocaleString(x) ==
  IF x.nan THEN <<"N", "a", "N">>
  ELSE (IF x.n < 0 THEN <<"-">> ELSE <<>>)
       \o Grouped(Abs(x.n) \div Scale)
       \o (IF Abs(x.n) % Scale = 0 THEN <<>>
           ELSE <<".">> \o StripZeros(Pad3(Abs(x.n) % Scale)))

\* ------------------------------------------------------ dashboard stats
Count(js, S) == Cardinality({i \in 1..Len(js) : js[i].status \in S})

\* updateDashboardStats() with 'new' left out of the active jobs.
updateDashboardStatsNewNotActive(js) ==
  LET total == totalValue(js) IN
  [ activeJobsCount    |-> Count(js, {"in_progress"}),
    quotedJobsCount    |-> Count(js, {"quoted"}),
    completedJobsCount |-> Count(js, {"completed"}),
    totalValue         |-> total,
    totalValueText     |-> <<"$">> \o toLocaleString(total) ]

\* updateDashboardStats(): what it writes into the elements, from the whole
\* of `jobs`.  (The "today" count reads the clock and is left out.)
updateDashboardStats(js) ==
  LET total == totalValue(js) IN
  [ activeJobsCount    |-> Count(js, {"in_progress", "new"}),
    quotedJobsCount    |-> Count(js, {"quoted"}),
    completedJobsCount |-> Count(js, {"completed"}),
    totalValue         |-> total,
    totalValueText     |-> <<"$">> \o toLocaleString(total) ]

\* --------------------------------------------------------- session state
\* The Session Store is `currentUser`; only the auth callback assigns it.
Loading == ~loadingHidden
SignedIn == currentUser # NoUser
SignedOut == loadingHidden /\ currentUser = NoUser

\* getCurrentUser(): auth.currentUser.
getCurrentUser == authCurrent

\* ------------------------------------------------------- the Job Store
IdsOf(u) == {id \in OldIds : OwnerOf(id) = u}
\* The documents of u the store held before this run: doc.id and doc.data().
DocsOf(u) ==
  [ id : IdsOf(u),
    data : [ client : {<<"A">>}, address : {<<"1">>}, value : SpecValues,
             status : Statuses, userId : {u} ] ]

\* What a listener of query(where('userId', '==', u), orderBy('updatedAt',
\* 'desc')) can deliver of the documents that existed before: any list of
\* them, each once, in the order the store has them.
Snapshots ==
  [ u \in Users |->
      { s \in UNION {[1..n -> DocsOf(u)] : n \in 0..MaxJobs} :
          \A i, j \in 1..Len(s) : i # j => s[i].id # s[j].id } ]

\* What the listener of u's query delivers: the documents addDoc wrote for
\* u, the newest first, then those of before.
QueryDocs(u, old) == SelectSeq(store, LAMBDA d : d.data.userId = u) \o old

\* doc => ({ id: doc.id, ...doc.data() })
docRecord(doc) ==
  [ f \in {"id"} \cup DOMAIN doc.data |->
      IF f \in DOMAIN doc.data THEN doc.data[f] ELSE doc.id ]

\* The snapshot's records added to the list instead of replacing it.
snapshotRecordsAppended(docs) ==
  jobs \o [i \in 1..Len(docs) |-> docRecord(docs[i])]

\* snapshot.docs.map(doc => ...)
snapshotRecords(docs) == [i \in 1..Len(docs) |-> docRecord(docs[i])]

\* The ids addDoc can still give to a new document.
FreshIds == {id \in NewIds : \A i \in 1..Len(store) : store[i].id # id}

\* --------------------------------------------------------------- helpers
\* jobs.slice(0, 10) of renderJobs().
RenderLimit == 10

\* renderJobs(): the ids of the jobs jobsList shows, none for "No jobs yet".
renderJobs(js) ==
  [ drawn |-> "jobs",
    ids   |-> [ i \in 1..(IF Len(js) < RenderLimit THEN Len(js) ELSE RenderLimit)
                  |-> js[i].id ] ]

\* showNotification(title, message): the title the element shows; NoNote
\* stands for a handler that shows nothing.
showNotification(title, shown) == IF title = NoNote THEN shown ELSE title

\* showView(view) with the test of getCurrentUser() inverted.
showViewGateInverted(view, gwUser) ==
  IF view \in {"dashboard", "jobDetail"} /\ gwUser # NoUser
  THEN [view |-> "signIn", note |-> "Access Denied"]
  ELSE [view |-> view, note |-> NoNote]

\* showView(view): the view that ends current and the notification shown.
\* The protected views need getCurrentUser(); without it the code calls
\* showView('signIn') and notifies.
showView(view, gwUser) ==
  IF view \in {"dashboard", "jobDetail"} /\ gwUser = NoUser
  THEN [view |-> "signIn", note |-> "Access Denied"]
  ELSE [view |-> view, note |-> NoNote]

\* jobsUnsubscribe(): the listener behind the handle stops delivering.
Unsubscribe(S, h) == IF h = NoSub THEN S ELSE [S EXCEPT ![h].active = FALSE]

\* The order in which clearUserData() empties the cache and cancels.
clearUserDataEvents(h) ==
  IF h = NoSub THEN <<"clear">> ELSE <<"clear", "unsubscribe">>

\* clearUserData(): jobs = []; currentJobId = null; cancel and forget the
\* handle if there is one; updateDashboardStats().
clearUserData ==
  /\ jobs' = <<>>
  /\ currentJobId' = NoJob
  /\ subs' = Unsubscribe(subs, jobsUnsubscribe)
  /\ jobsUnsubscribe' = NoSub
  /\ stats' = updateDashboardStats(<<>>)
  /\ trace' = clearUserDataEvents(jobsUnsubscribe)

\* loadUserData(userId): jobsUnsubscribe = onSnapshot(query, callback).
loadUserData(userId) ==
  /\ subs' = Append(subs, [owner |-> userId, active |-> TRUE])
  /\ jobsUnsubscribe' = Len(subs) + 1
  /\ trace' = <<"subscribe">>

\* String.prototype.trim() on the prompts' answers.
RECURSIVE TrimEnd(_)
TrimEnd(s) ==
  IF s # <<>> /\ s[Len(s)] = " " THEN TrimEnd(SubSeq(s, 1, Len(s) - 1)) ELSE s

Trim(s) == TrimEnd(SubSeq(s, WhiteEnd(s, 1), Len(s)))

\* The job with this id in the cache, as jobs.find() looks for it.
HasJob(js, id) == \E i \in 1..Len(js) : js[i].id = id

\* ----------------------------------------------- the auth wrappers
\* What the gateway's promise settles with: a user, or a rejection with
\* error.message, a text around an error code, or with no message at all.
NoMessage == <<"undefined">>
ErrorCodes == {"user-not-found", "email-already-in-use", "network-request-failed"}
ErrorMessages ==
  {<<"Firebase: Error (auth/", code, ").">> : code \in ErrorCodes} \cup {NoMessage}
Outcomes ==
  [ok : {TRUE}, user : Users] \cup [ok : {FALSE}, message : ErrorMessages]

\* The wrappers of js/auth_js_file.js: try { await <gateway call>; return
\* { success: true, user } } catch (error) { return { success: false,
\* error: error.message } }, for the outcome of the one gateway call.
\* A wrapper whose catch clause reports success.
signInWithEmailSwallowsError(outcome) ==
  IF outcome.ok THEN [success |-> TRUE, user |-> outcome.user]
  ELSE [success |-> TRUE, user |-> NoUser]

signInWithEmail(outcome) ==
  IF outcome.ok THEN [success |-> TRUE, user |-> outcome.user]
  ELSE [success |-> FALSE, error |-> outcome.message]

signUpWithEmail(outcome) ==
  IF outcome.ok THEN [success |-> TRUE, user |-> outcome.user]
  ELSE [success |-> FALSE, error |-> outcome.message]

signOutUser(outcome) ==
  IF outcome.ok THEN [success |-> TRUE]
  ELSE [success |-> FALSE, error |-> outcome.message]

\* ------------------------------------------------------ the Auth Gateway
\* auth.currentUser changes (a sign-in, a sign-up, a sign-out elsewhere);
\* firebase schedules the onAuthStateChanged callback.  One change is
\* notified before the next is made.
GatewayChange(v) ==
  /\ ~pending
  /\ v # authCurrent
  /\ v # NoUser => Len(subs) < MaxSubs
  /\ authCurrent' = v
  /\ pending' = TRUE
  /\ UNCHANGED << currentView, jobs, currentJobId, currentUser, jobsUnsubscribe,
                  loadingHidden, stats, subs, signOutPc, createPc, request,
                  notification, trace >>
  /\ UNCHANGED << formVars, attempts, store, jobsList >>

\* The callback of onAuthStateChange: initializeApp, lines 43-58.
AuthStateChanged ==
  /\ pending
  /\ pending' = FALSE
  /\ currentUser' = authCurrent
  /\ IF authCurrent # NoUser
     THEN /\ currentView' = showView("dashboard", getCurrentUser).view
          /\ notification' =
               showNotification(showView("dashboard", getCurrentUser).note,
                                notification)
          /\ loadUserData(authCurrent)
          /\ UNCHANGED << jobs, currentJobId, stats >>
     ELSE /\ clearUserData
          /\ currentView' = showView("signIn", getCurrentUser).view
          /\ notification' =
               showNotification(showView("signIn", getCurrentUser).note,
                                notification)
  /\ loadingHidden' = TRUE
  /\ UNCHANGED << authCurrent, signOutPc, createPc, request >>
  /\ UNCHANGED << formVars, attempts, store, jobsList >>

\* ---------------------------------------------------- the subscription
\* The onSnapshot callback of loadUserData, lines 221-229: the cache is
\* replaced by the snapshot, then renderJobs() and updateDashboardStats().
SnapshotPush(h, snap) ==
  /\ subs[h].active
  /\ jobs' = snapshotRecords(QueryDocs(subs[h].owner, snap))
  /\ jobsList' = renderJobs(jobs')
  /\ stats' = updateDashboardStats(jobs')
  /\ UNCHANGED << currentView, currentJobId, currentUser, jobsUnsubscribe,
                  loadingHidden, authCurrent, pending, subs, signOutPc,
                  createPc, request, notification, trace >>
  /\ UNCHANGED << formVars, attempts, store >>

\* ------------------------------------------------------------- handlers
\* window.showView(view)
ShowView(view) ==
  /\ currentView' = showView(view, getCurrentUser).view
  /\ notification' =
       showNotification(showView(view, getCurrentUser).note, notification)
  /\ UNCHANGED << jobs, currentJobId, currentUser, jobsUnsubscribe,
                  loadingHidden, stats, authCurrent, pending, subs, signOutPc,
                  createPc, request, trace >>
  /\ UNCHANGED << formVars, attempts, store, jobsList >>

\* A selectJob that does not look the id up in `jobs`.
selectJobUnchecked(jobId, gwUser, js, selected) ==
  IF gwUser = NoUser
  THEN [id |-> selected, note |-> "Access Denied"]
  ELSE [id |-> jobId, note |-> "Job Selected"]

\* selectJob(jobId): the selected id and the notification that result.
selectJob(jobId, gwUser, js, selected) ==
  IF gwUser = NoUser
  THEN [id |-> selected, note |-> "Access Denied"]
  ELSE IF HasJob(js, jobId)
       THEN [id |-> jobId, note |-> "Job Selected"]
       ELSE [id |-> selected, note |-> NoNote]

\* window.selectJob(jobId)
SelectJob(jobId) ==
  /\ currentJobId' = selectJob(jobId, getCurrentUser, jobs, currentJobId).id
  /\ notification' =
       showNotification(
         selectJob(jobId, getCurrentUser, jobs, currentJobId).note,
         notification)
  /\ UNCHANGED << currentView, jobs, currentUser, jobsUnsubscribe,
                  loadingHidden, stats, authCurrent, pending, subs, signOutPc,
                  createPc, request, trace >>
  /\ UNCHANGED << formVars, attempts, store, jobsList >>

\* createNewJob() up to `await addDoc(...)`: "denied", "cancelled" (a prompt
\* left empty) or "send".
createNewJob(gwUser, client, address) ==
  IF gwUser = NoUser THEN "denied"
  ELSE IF Trim(client) = <<>> \/ Trim(address) = <<>> THEN "cancelled"
  ELSE "send"

\* jobData with the prompts' answers as they were typed.
jobDataUntrimmed(gwUser, client, address, value) ==
  [ client  |-> client,
    address |-> address,
    value   |-> IF value = <<>> THEN VDollar0 ELSE value,
    status  |-> "new",
    userId  |-> gwUser ]

\* The jobData of createNewJob, lines 399-411.
jobData(gwUser, client, address, value) ==
  [ client  |-> Trim(client),
    address |-> Trim(address),
    value   |-> IF value = <<>> THEN VDollar0 ELSE value,
    status  |-> "new",
    userId  |-> gwUser ]

\* window.createNewJob(), to its await.  One addDoc is in flight at a time.
\* addDoc names the new document at once, and the store's listeners see it
\* from then on.
CreateNewJob(client, address, value) ==
  /\ createPc = "idle"
  /\ LET way == createNewJob(getCurrentUser, client, address) IN
       /\ way = "send" => FreshIds # {}
       /\ store' =
            IF way = "send"
            THEN << [ id   |-> CHOOSE id \in FreshIds :
                                \A other \in FreshIds : id <= other,
                      data |-> jobData(getCurrentUser, client, address, value) ] >>
                 \o store
            ELSE store
       /\ notification' =
            showNotification(IF way = "denied" THEN "Access Denied" ELSE NoNote,
                             notification)
       /\ createPc' = IF way = "send" THEN "awaiting" ELSE "idle"
       /\ request' = IF way = "send"
                     THEN jobData(getCurrentUser, client, address, value)
                     ELSE NoRequest
  /\ UNCHANGED << currentView, jobs, currentJobId, currentUser, jobsUnsubscribe,
                  loadingHidden, stats, authCurrent, pending, subs, signOutPc,
                  trace >>
  /\ UNCHANGED << formVars, attempts, jobsList >>

\* createNewJob() after the await: addDoc resolved with the new document's
\* id (notify, then selectJob(docRef.id)), or rejected (notify) and the
\* store is without the document.
CreateNewJobResume(ok, id) ==
  /\ createPc = "awaiting"
  /\ id = store[1].id
  /\ store' = IF ok THEN store ELSE Tail(store)
  /\ IF ok
     THEN LET r == selectJob(id, getCurrentUser, jobs, currentJobId) IN
            /\ currentJobId' = r.id
            /\ notification' = showNotification(r.note, "Job Created")
     ELSE /\ currentJobId' = currentJobId
          /\ notification' = "Error"
  /\ createPc' = "idle"
  /\ request' = NoRequest
  /\ UNCHANGED << currentView, jobs, currentUser, jobsUnsubscribe,
                  loadingHidden, stats, authCurrent, pending, subs, signOutPc,
                  trace >>
  /\ UNCHANGED << formVars, attempts, jobsList >>

\* window.handleSignOut(), to `await signOutUser()`.
HandleSignOut ==
  /\ signOutPc = "idle"
  /\ signOutPc' = IF getCurrentUser = NoUser THEN "idle" ELSE "awaiting"
  /\ attempts' = [attempts EXCEPT !.signOut = 0]
  /\ UNCHANGED << currentView, jobs, currentJobId, currentUser, jobsUnsubscribe,
                  loadingHidden, stats, authCurrent, pending, subs, createPc,
                  request, notification, trace >>
  /\ UNCHANGED << formVars, store, jobsList >>

\* signOutUser(): signOut(auth) succeeds (auth.currentUser becomes null and
\* the callback is scheduled) or throws, which the wrapper turns into
\* {success: false}.
SignOutUser(ok) ==
  /\ signOutPc = "awaiting"
  /\ ~pending
  /\ signOutPc' =
       IF signOutUser(IF ok THEN [ok |-> TRUE]
                      ELSE [ok |-> FALSE, message |-> NoMessage]).success
       THEN "ok" ELSE "failed"
  /\ attempts' = [attempts EXCEPT !.signOut = @ + 1]
  /\ authCurrent' = IF ok THEN NoUser ELSE authCurrent
  /\ pending' = (ok /\ authCurrent # NoUser)
  /\ UNCHANGED << currentView, jobs, currentJobId, currentUser, jobsUnsubscribe,
                  loadingHidden, stats, subs, createPc, request, notification,
                  trace >>
  /\ UNCHANGED << formVars, store, jobsList >>

\* handleSignOut() after the await: clearUserData() and a notification on
\* success, a notification alone on failure.
HandleSignOutResume ==
  /\ signOutPc \in {"ok", "failed"}
  /\ IF signOutPc = "ok"
     THEN /\ clearUserData
          /\ notification' = "Signed Out"
     ELSE /\ notification' = "Error"
          /\ UNCHANGED << jobs, currentJobId, subs, jobsUnsubscribe, stats,
                          trace >>
  /\ signOutPc' = "idle"
  /\ attempts' = [attempts EXCEPT !.signOut = 0]
  /\ UNCHANGED << currentView, currentUser, loadingHidden, authCurrent, pending,
                  createPc, request >>
  /\ UNCHANGED << formVars, store, jobsList >>

\* ------------------------------------------------ sign-in and sign-up
\* result.error.includes(code); on an error that is undefined it throws.
errorIncludes(error, code) == \E i \in 1..Len(error) : error[i] = code

\* The try block of handleSignIn after the await: the title it notifies
\* with, "Error" being the catch clause's.
signInNotification(result) ==
  IF result.success THEN "Welcome back!"
  ELSE IF result.error = NoMessage THEN "Error"
  ELSE "Sign In Failed"

\* The same of handleSignUp.
signUpNotification(result) ==
  IF result.success THEN "Account Created!"
  ELSE IF result.error = NoMessage THEN "Error"
  ELSE "Sign Up Failed"

\* The frame of the form handlers: they touch no state of the session, the
\* cache or the view.
appVars ==
  << currentView, jobs, currentJobId, currentUser, jobsUnsubscribe,
     loadingHidden, stats, subs, signOutPc, createPc, request, trace, store,
     jobsList >>

\* handleSignIn(event), to `await signInWithEmail(email, password)`: both
\* fields are needed; the button is disabled for the time of the call.
HandleSignIn(email, password) ==
  /\ signInPc = "idle"
  /\ IF email = <<>> \/ password = <<>>
     THEN /\ notification' = "Error"
          /\ UNCHANGED << signInPc, signInBtn, attempts >>
     ELSE /\ signInBtn' = [disabled |-> TRUE]
          /\ signInPc' = "awaiting"
          /\ attempts' = [attempts EXCEPT !.signIn = 0]
          /\ UNCHANGED notification
  /\ UNCHANGED << appVars, authCurrent, pending, signInResult, signUpPc,
                  signUpResult >>

\* The gateway settles a sign-in or a sign-up: with a user, auth.currentUser
\* is that user and the callback is scheduled if the user is another one.
GatewaySettle(outcome) ==
  /\ outcome.ok => ~pending
  /\ (outcome.ok /\ outcome.user # authCurrent) => Len(subs) < MaxSubs
  /\ authCurrent' = IF outcome.ok THEN outcome.user ELSE authCurrent
  /\ pending' = (pending \/ (outcome.ok /\ outcome.user # authCurrent))

\* signInWithEmail(email, password): signInWithEmailAndPassword settles.
SignInWithEmail(outcome) ==
  /\ signInPc = "awaiting"
  /\ GatewaySettle(outcome)
  /\ signInResult' = signInWithEmail(outcome)
  /\ signInPc' = "returned"
  /\ attempts' = [attempts EXCEPT !.signIn = @ + 1]
  /\ UNCHANGED << appVars, notification, signInBtn, signUpPc, signUpResult >>

\* handleSignIn with the button reset at the end of the try block instead
\* of in a finally clause.
HandleSignInResumeNoFinally ==
  /\ signInPc = "returned"
  /\ notification' = signInNotification(signInResult)
  /\ signInBtn' = [disabled |-> (~signInResult.success
                                  /\ signInResult.error = NoMessage)]
  /\ signInPc' = "idle"
  /\ signInResult' = NoResult
  /\ attempts' = [attempts EXCEPT !.signIn = 0]
  /\ UNCHANGED << appVars, authCurrent, pending, signUpPc, signUpResult >>

\* handleSignIn after the await: notify, and in the finally clause enable
\* the button.
HandleSignInResume ==
  /\ signInPc = "returned"
  /\ notification' = signInNotification(signInResult)
  /\ signInBtn' = [disabled |-> FALSE]
  /\ signInPc' = "idle"
  /\ signInResult' = NoResult
  /\ attempts' = [attempts EXCEPT !.signIn = 0]
  /\ UNCHANGED << appVars, authCurrent, pending, signUpPc, signUpResult >>

\* The shortest password handleSignUpClick lets through.
MinPassword == 6

\* handleSignUpClick(event) and handleSignUp(email, password), to `await
\* signUpWithEmail(email, password)`.
HandleSignUpClick(email, password) ==
  /\ signUpPc = "idle"
  /\ IF email = <<>> \/ password = <<>>
     THEN UNCHANGED << notification, signUpPc, attempts >>
     ELSE IF Len(password) < MinPassword
     THEN /\ notification' = "Error"
          /\ UNCHANGED << signUpPc, attempts >>
     ELSE /\ signUpPc' = "awaiting"
          /\ attempts' = [attempts EXCEPT !.signUp = 0]
          /\ UNCHANGED notification
  /\ UNCHANGED << appVars, authCurrent, pending, signInPc, signInResult,
                  signInBtn, signUpResult >>

\* signUpWithEmail(email, password): createUserWithEmailAndPassword settles.
SignUpWithEmail(outcome) ==
  /\ signUpPc = "awaiting"
  /\ GatewaySettle(outcome)
  /\ signUpResult' = signUpWithEmail(outcome)
  /\ signUpPc' = "returned"
  /\ attempts' = [attempts EXCEPT !.signUp = @ + 1]
  /\ UNCHANGED << appVars, notification, signInPc, signInResult, signInBtn >>

\* handleSignUp after the await: notify.
HandleSignUpResume ==
  /\ signUpPc = "returned"
  /\ notification' = signUpNotification(signUpResult)
  /\ signUpPc' = "idle"
  /\ signUpResult' = NoResult
  /\ attempts' = [attempts EXCEPT !.signUp = 0]
  /\ UNCHANGED << appVars, authCurrent, pending, signInPc, signInResult,
                  signInBtn >>

\* String.prototype.toLowerCase(), on the letters the model's strings hold.
UpperCase == <<"A", "B", "C">>
LowerCase == <<"a", "b", "c">>
toLowerCase(s) ==
  [ i \in 1..Len(s) |->
      IF \E k \in 1..Len(UpperCase) : UpperCase[k] = s[i]
      THEN LowerCase[CHOOSE k \in 1..Len(UpperCase) : UpperCase[k] = s[i]]
      ELSE s[i] ]

\* String.prototype.includes()
includes(s, q) ==
  \E i \in 0..(Len(s) - Len(q)) : SubSeq(s, i + 1, i + Len(q)) = q

\* job.client?.toLowerCase().includes(query.toLowerCase()) ||
\* job.address?.toLowerCase().includes(query.toLowerCase())
matchesQuery(job, query) ==
  \/ /\ "client" \in DOMAIN job
     /\ includes(toLowerCase(job.client), toLowerCase(query))
  \/ /\ "address" \in DOMAIN job
     /\ includes(toLowerCase(job.address), toLowerCase(query))

\* What jobsList shows for a search without a match.
NoMatch == [drawn |-> "noMatch", ids |-> <<>>]

\* searchJobs(query) without `jobs = originalJobs`.
searchJobsKeepsMatches(query, js) ==
  LET filteredJobs == SelectSeq(js, LAMBDA job : matchesQuery(job, query))
  IN  IF Trim(query) = <<>> THEN [jobs |-> js, list |-> renderJobs(js)]
      ELSE IF Len(filteredJobs) = 0 THEN [jobs |-> js, list |-> NoMatch]
      ELSE [jobs |-> filteredJobs, list |-> renderJobs(filteredJobs)]

\* searchJobs(query): the list drawn and the value of `jobs` at the end.  A
\* search with matches draws them by putting them in `jobs` for the time of
\* renderJobs(), and puts the copy of the original list back.
searchJobs(query, js) ==
  LET filteredJobs == SelectSeq(js, LAMBDA job : matchesQuery(job, query))
      originalJobs == [i \in 1..Len(js) |-> js[i]]
  IN  IF Trim(query) = <<>> THEN [jobs |-> js, list |-> renderJobs(js)]
      ELSE IF Len(filteredJobs) = 0 THEN [jobs |-> js, list |-> NoMatch]
      ELSE [jobs |-> originalJobs, list |-> renderJobs(filteredJobs)]

\* window.searchJobs(query)
SearchJobs(query) ==
  /\ jobs' = searchJobs(query, jobs).jobs
  /\ jobsList' = searchJobs(query, jobs).list
  /\ UNCHANGED << currentView, currentJobId, currentUser, jobsUnsubscribe,
                  loadingHidden, stats, authCurrent, pending, subs, signOutPc,
                  createPc, request, notification, trace >>
  /\ UNCHANGED << formVars, attempts, store >>

\* ------------------------------------------------------- specification
\* What is typed in the search box.
Queries == {<<>>, <<" ">>, <<"a">>, <<"1">>, <<"2">>, <<"z">>}
\* The answers to createNewJob's prompts.
Clients == {<<>>, <<"A">>, <<" ", "A">>}
Addresses == {<<>>, <<"2">>}
Estimates == {<<>>, V1500}

\* The module's state when it has loaded and initializeApp() has registered
\* the callback: the first notification is still to come, and the gateway
\* may already hold a persisted identity.
Init ==
  /\ currentView = "loading"
  /\ jobs = <<>>
  /\ currentJobId = NoJob
  /\ currentUser = NoUser
  /\ jobsUnsubscribe = NoSub
  /\ loadingHidden = FALSE
  /\ stats = NoStats
  /\ authCurrent \in Users \cup {NoUser}
  /\ pending = TRUE
  /\ subs = <<>>
  /\ signOutPc = "idle"
  /\ createPc = "idle"
  /\ request = NoRequest
  /\ notification = NoNote
  /\ trace = <<>>
  /\ store = <<>>
  /\ jobsList = NoList
  /\ signInPc = "idle"
  /\ signInResult = NoResult
  /\ signInBtn = [disabled |-> FALSE]
  /\ signUpPc = "idle"
  /\ signUpResult = NoResult
  /\ attempts = NoAttempts

Next ==
  \/ \E v \in Users \cup {NoUser} : GatewayChange(v)
  \/ AuthStateChanged
  \/ \E h \in 1..Len(subs) : \E snap \in Snapshots[subs[h].owner] :
       SnapshotPush(h, snap)
  \/ \E view \in Views : ShowView(view)
  \/ \E id \in JobIds : SelectJob(id)
  \/ \E c \in Clients, a \in Addresses, e \in Estimates : CreateNewJob(c, a, e)
  \/ \E ok \in BOOLEAN, id \in JobIds : CreateNewJobResume(ok, id)
  \/ HandleSignOut
  \/ \E ok \in BOOLEAN : SignOutUser(ok)
  \/ HandleSignOutResume

Spec == Init /\ [][Next]_vars


\* Only the Auth Gateway and the Job Store act: identity changes, their
\* notifications, and the pushes of the subscriptions they establish.
AuthNext ==
  \/ \E v \in Users \cup {NoUser} : GatewayChange(v)
  \/ AuthStateChanged
  \/ \E h \in 1..Len(subs) : \E snap \in Snapshots[subs[h].owner] :
       SnapshotPush(h, snap)

AuthSpec == Init /\ [][AuthNext]_vars

\* Every action that writes `jobs` or the statistics, with the actions that
\* enable them.  The handlers left out (showView, selectJob, createNewJob)
\* write neither and enable none of these.
CacheNext ==
  \/ \E v \in Users \cup {NoUser} : GatewayChange(v)
  \/ AuthStateChanged
  \/ \E h \in 1..Len(subs) : \E snap \in Snapshots[subs[h].owner] :
       SnapshotPush(h, snap)
  \/ HandleSignOut
  \/ \E ok \in BOOLEAN : SignOutUser(ok)
  \/ HandleSignOutResume

CacheSpec == Init /\ [][CacheNext]_vars

\* The Job Cache and the operations on jobs: the notifications that
\* activate and deactivate the cache, the pushes, createNewJob with the
\* document it stores, and searchJobs.
JobsNext ==
  \/ \E v \in Users \cup {NoUser} : GatewayChange(v)
  \/ AuthStateChanged
  \/ \E h \in 1..Len(subs) : \E snap \in Snapshots[subs[h].owner] :
       SnapshotPush(h, snap)
  \/ \E query \in Queries : SearchJobs(query)
  \/ \E c \in Clients, a \in Addresses, e \in Estimates : CreateNewJob(c, a, e)
  \/ \E ok \in BOOLEAN, id \in JobIds : CreateNewJobResume(ok, id)

JobsSpec == Init /\ [][JobsNext]_vars

\* The selection: selectJob with everything that writes `jobs` or
\* currentJobId besides it, the pushes and both clears.
SelectionNext ==
  \/ \E v \in Users \cup {NoUser} : GatewayChange(v)
  \/ AuthStateChanged
  \/ \E h \in 1..Len(subs) : \E snap \in Snapshots[subs[h].owner] :
       SnapshotPush(h, snap)
  \/ \E id \in JobIds : SelectJob(id)
  \/ HandleSignOut
  \/ \E ok \in BOOLEAN : SignOutUser(ok)
  \/ HandleSignOutResume

SelectionSpec == Init /\ [][SelectionNext]_vars

\* What is typed in the sign-in form and at the sign-up prompts.
Emails == {<<>>, <<"a", "@", "b">>}
Passwords == {<<>>, <<"1", "2", "3">>, <<"1", "2", "3", "4", "5", "6">>}

\* The authentication handlers with the wrappers they await and the
\* callback that follows a change of user.
FormNext ==
  \/ AuthStateChanged
  \/ \E e \in Emails, p \in Passwords : HandleSignIn(e, p)
  \/ \E outcome \in Outcomes : SignInWithEmail(outcome)
  \/ HandleSignInResume
  \/ \E e \in Emails, p \in Passwords : HandleSignUpClick(e, p)
  \/ \E outcome \in Outcomes : SignUpWithEmail(outcome)
  \/ HandleSignUpResume
  \/ HandleSignOut
  \/ \E ok \in BOOLEAN : SignOutUser(ok)
  \/ HandleSignOutResume

FormSpec == Init /\ [][FormNext]_vars

\* updateDashboardStats() as a function of the list: `jobs` is any list of
\* at most MaxStatJobs records over the statuses and ValueStrings, and the
\* one action computes the statistics from it.
StatRecords ==
  [ id : {1}, userId : {"A"}, status : Statuses \cup {"undefined"},
    value : ValueStrings ]

StatsInit ==
  /\ jobs \in UNION {[1..n -> StatRecords] : n \in 0..MaxStatJobs}
  /\ stats = NoStats
  /\ currentView = "dashboard"
  /\ currentJobId = NoJob
  /\ currentUser = "A"
  /\ jobsUnsubscribe = NoSub
  /\ loadingHidden = TRUE
  /\ authCurrent = "A"
  /\ pending = FALSE
  /\ subs = <<>>
  /\ signOutPc = "idle"
  /\ createPc = "idle"
  /\ request = NoRequest
  /\ notification = NoNote
  /\ trace = <<>>
  /\ store = <<>>
  /\ jobsList = NoList
  /\ signInPc = "idle"
  /\ signInResult = NoResult
  /\ signInBtn = [disabled |-> FALSE]
  /\ signUpPc = "idle"
  /\ signUpResult = NoResult
  /\ attempts = NoAttempts

UpdateDashboardStats ==
  /\ stats = NoStats
  /\ stats' = updateDashboardStats(jobs)
  /\ UNCHANGED << currentView, jobs, currentJobId, currentUser, jobsUnsubscribe,
                  loadingHidden, authCurrent, pending, subs, signOutPc,
                  createPc, request, notification, trace >>
  /\ UNCHANGED << formVars, attempts, store, jobsList >>

StatsSpec == StatsInit /\ [][UpdateDashboardStats]_vars


\* ================================================================ claims
ProtectedViews == {"dashboard", "jobDetail"}
ActiveSubs == {h \in 1..Len(subs) : subs[h].active}

\* C1: with only Auth Gateway notifications, the view is `loading` exactly
\* until the first notification; the step that delivers a notification
\* leaves it `signIn` when the notification carried no identity and
\* `dashboard` when it carried one; and it never returns to `loading`.
C1_LoadingUntilFirstNotification ==
  /\ [](Loading <=> currentView = "loading")
  /\ [][ (pending /\ ~pending') =>
           /\ ~Loading'
           /\ currentView' = IF authCurrent = NoUser THEN "signIn"
                             ELSE "dashboard" ]_vars
  /\ [][ ~Loading => ~Loading' ]_vars

\* A sign-out notified after a sign-in: the view went loading, dashboard,
\* signIn.
C1_Witness ==
  /\ ~Loading
  /\ currentView = "signIn"
  /\ Len(subs) >= 1

\* C2: every record in the Job Cache is owned by the identity the Session
\* Store holds.
C2_CacheOwnedBySession ==
  \A i \in 1..Len(jobs) : jobs[i].userId = currentUser

\* C3: at most one subscription is active, and none while SignedOut (so a
\* subscription is only ever established once the earlier ones are
\* cancelled).
C3_OneActiveSubscription ==
  /\ Cardinality(ActiveSubs) <= 1
  /\ SignedOut => ActiveSubs = {}

\* C4: the notification without identity that ends a SignedIn state leaves
\* the cache empty, no job selected, the stored handle cancelled and reset,
\* and the view signIn; and while SignedOut an empty cache stays empty in
\* every step that makes no subscribe call.
C4_SignOutEmptiesCache ==
  [][ /\ (SignedIn /\ ~SignedIn') =>
           /\ jobs' = <<>>
           /\ currentJobId' = NoJob
           /\ jobsUnsubscribe' = NoSub
           /\ jobsUnsubscribe # NoSub => ~subs'[jobsUnsubscribe].active
           /\ currentView' = "signIn"
      /\ (SignedOut /\ jobs = <<>> /\ Len(subs') = Len(subs)) => jobs' = <<>>
    ]_vars

\* C5: a deactivation cancels the subscription before it clears the list,
\* and a subscribe call finds the cache cleared and every earlier
\* subscription cancelled: unsubscribe, then clear, then subscribe.
C5_UnsubscribeClearSubscribe ==
  [][ /\ \A i, j \in 1..Len(trace') :
           (trace'[i] = "unsubscribe" /\ trace'[j] = "clear") => i < j
      /\ Len(subs') > Len(subs) => (jobs = <<>> /\ ActiveSubs = {})
    ]_vars

\* C6: createNewJob or selectJob invoked while SignedOut shows the
\* access-denied notification, sends no request, and leaves the cache, the
\* selected job id and the view as they were.
C6_DeniedWhileSignedOut ==
  [][ ( /\ SignedOut
        /\ \/ \E id \in JobIds : SelectJob(id)
           \/ \E c \in Clients, a \in Addresses, e \in Estimates :
                CreateNewJob(c, a, e) )
      => /\ notification' = "Access Denied"
         /\ createPc' = createPc
         /\ request' = request
         /\ jobs' = jobs
         /\ currentJobId' = currentJobId
         /\ currentView' = currentView
    ]_vars

\* C7: showView of a protected view while not SignedIn ends in the signIn
\* view with the access-denied notification; while SignedIn the requested
\* view becomes the current view.
C7_ViewGate ==
  [][ \A view \in ProtectedViews :
        ShowView(view) =>
          IF SignedIn
          THEN currentView' = view
          ELSE currentView' = "signIn" /\ notification' = "Access Denied"
    ]_vars

\* C8: before the first notification no operation acts on an identity: no
\* create request is in flight, no job is selected and no protected view is
\* the current view, whatever the gateway's current user is.
C8_NothingBeforeFirstNotification ==
  Loading =>
    /\ createPc = "idle"
    /\ request = NoRequest
    /\ currentJobId = NoJob
    /\ currentView \notin ProtectedViews

\* The number a record adds to the total as the claim has it: the number
\* parsed from the value without `$` and `,`, and 0 when the value is
\* absent, empty or no number.
C9_Contribution(job) ==
  IF job.value = Undefined THEN 0
  ELSE LET x == parseFloat(StripMoney(job.value)) IN
         IF x.nan THEN 0 ELSE x.n

RECURSIVE C9_Sum(_, _)
C9_Sum(js, n) == IF n = 0 THEN 0 ELSE C9_Sum(js, n - 1) + C9_Contribution(js[n])

\* C9: the total value the statistics show is the sum, over the records, of
\* the number parsed from the value string, a record whose value is absent,
\* empty or unparsable adding 0.
C9_TotalValueIsSum ==
  stats # NoStats => stats.totalValue = Num(C9_Sum(jobs, Len(jobs)))

\* C10: once a push or a clear has happened, the counts shown are those of
\* the current cache: active is the number of records with status new or
\* in_progress, quoted those with status quoted, completed those with
\* status completed.
C10_CountsOfCurrentCache ==
  \/ jobs = <<>> /\ stats = NoStats
  \/ /\ stats # NoStats
     /\ stats.activeJobsCount =
          Cardinality({i \in 1..Len(jobs) :
                         jobs[i].status = "new" \/ jobs[i].status = "in_progress"})
     /\ stats.quotedJobsCount =
          Cardinality({i \in 1..Len(jobs) : jobs[i].status = "quoted"})
     /\ stats.completedJobsCount =
          Cardinality({i \in 1..Len(jobs) : jobs[i].status = "completed"})

\* A push of one new record, counted as active.
C10_Witness ==
  /\ Len(jobs) = 1
  /\ jobs[1].status = "new"
  /\ stats.activeJobsCount = 1
  /\ stats.quotedJobsCount = 0

\* A step in which a subscription delivers a snapshot.
PushStep ==
  \E h \in 1..Len(subs) : \E snap \in Snapshots[subs[h].owner] :
    SnapshotPush(h, snap)

\* A step in which clearUserData() runs: the notification without identity,
\* or handleSignOut after a successful sign-out.
ClearStep ==
  \/ AuthStateChanged /\ authCurrent = NoUser
  \/ HandleSignOutResume /\ signOutPc = "ok"

\* C11: createNewJob, from its call to its completion, and searchJobs leave
\* the contents of `jobs` as they were, and every step that changes the
\* contents of `jobs` is a subscription push or a deactivation clear.
C11_CacheChangesOnlyByPushOrClear ==
  [][ /\ ( \/ \E c \in Clients, a \in Addresses, e \in Estimates :
                CreateNewJob(c, a, e)
           \/ \E ok \in BOOLEAN, id \in JobIds : CreateNewJobResume(ok, id)
           \/ \E query \in Queries : SearchJobs(query) )
         => jobs' = jobs
      /\ jobs' # jobs => (PushStep \/ ClearStep)
    ]_vars

\* A search drew one of two cached jobs while a createNewJob was awaiting
\* the store, and the cache still holds both.
C11_Witness ==
  /\ createPc = "awaiting"
  /\ Len(jobs) = 2
  /\ jobsList.drawn = "jobs"
  /\ Len(jobsList.ids) = 1

C13_StoredAppearsInPush ==
  \A h \in 1..Len(subs) : \A snap \in Snapshots[subs[h].owner] :
    SnapshotPush(h, snap) =>
      \A k \in 1..Len(store) :
        store[k].data.userId = subs[h].owner =>
          \E i \in 1..Len(jobs') :
            /\ jobs'[i].id = store[k].id
            /\ jobs'[i].client = store[k].data.client
            /\ jobs'[i].address = store[k].data.address
            /\ jobs'[i].value = store[k].data.value
            /\ jobs'[i].status = "new"
            /\ jobs'[i].userId = store[k].data.userId

\* C13 as stated: createNewJob called while SignedIn with a client, an
\* address and a value sends a record with the client, the address and the
\* value as they were given, status new and the authenticated identity as
\* owner; and the owner's subscription shows the record, with those fields,
\* at its next push.
C13_RoundTripAsTyped ==
  [][ /\ \A c \in Clients \ {<<>>}, a \in Addresses \ {<<>>},
            e \in Estimates \ {<<>>} :
           (SignedIn /\ CreateNewJob(c, a, e) /\ createPc' = "awaiting") =>
             /\ request'.client = c
             /\ request'.address = a
             /\ request'.value = e
             /\ request'.status = "new"
             /\ request'.userId = authCurrent
             /\ store'[1].data = request'
      /\ C13_StoredAppearsInPush
    ]_vars

\* C13, amended: the record sent carries the client and the address without
\* the white space around them, the value as given or `$0` when none was
\* given, status new and the authenticated identity as owner; and the
\* owner's subscription shows the record, with those fields, at its next
\* push.
C13_RoundTripTrimmed ==
  [][ /\ \A c \in Clients, a \in Addresses, e \in Estimates :
           (SignedIn /\ CreateNewJob(c, a, e) /\ createPc' = "awaiting") =>
             /\ request'.client = Trim(c)
             /\ request'.address = Trim(a)
             /\ request'.value = (IF e = <<>> THEN VDollar0 ELSE e)
             /\ request'.status = "new"
             /\ request'.userId = authCurrent
             /\ store'[1].data = request'
      /\ C13_StoredAppearsInPush
    ]_vars

\* The record createNewJob stored for the session's identity, with the
\* value it was given, is in the cache.
C13_Witness ==
  /\ SignedIn
  /\ store # <<>>
  /\ store[1].data.userId = currentUser
  /\ \E i \in 1..Len(jobs) :
       /\ jobs[i].id = store[1].id
       /\ jobs[i].client = <<"A">>
       /\ jobs[i].value = V1500
       /\ jobs[i].status = "new"

\* C14: selectJob called while SignedIn with an id no record of the cache
\* has leaves the selected job id, the view and the cache as they were and
\* shows no error; called with the id of a record of the cache it makes
\* that id the selected job id.
C14_SelectJobWhileSignedIn ==
  [][ \A id \in JobIds :
        (SignedIn /\ SelectJob(id)) =>
          IF HasJob(jobs, id)
          THEN currentJobId' = id
          ELSE /\ currentJobId' = currentJobId
               /\ currentView' = currentView
               /\ jobs' = jobs
               /\ notification' # "Error"
    ]_vars

\* C15: whenever handleSignIn is not running, the sign-in button is
\* enabled: each run that disabled it has enabled it again, whether the
\* wrapper reported success, reported a failure, or the handler's try block
\* threw; and every step that ends a run leaves the button enabled.
C15_ButtonReEnabled ==
  /\ signInPc = "idle" => ~signInBtn.disabled
  /\ signInPc = "returned" => signInBtn.disabled

\* A run that failed has ended, and the button is enabled.
C15_Witness ==
  /\ signInPc = "idle"
  /\ notification = "Sign In Failed"
  /\ ~signInBtn.disabled

\* C16: a call of signInWithEmail, signUpWithEmail or signOutUser is one
\* attempt at the gateway, the first and only one of the handler's run; it
\* returns a result whose success flag says whether the gateway accepted,
\* with the gateway's message as error on failure; the session store
\* (currentUser, the cache, the subscription) is as it was.
C16_WrapperOneAttempt ==
  [][ /\ \A o \in Outcomes :
           SignInWithEmail(o) =>
             /\ attempts'.signIn = 1
             /\ signInResult'.success = o.ok
             /\ ~o.ok => signInResult'.error = o.message
             /\ UNCHANGED << currentUser, jobs, jobsUnsubscribe, subs >>
      /\ \A o \in Outcomes :
           SignUpWithEmail(o) =>
             /\ attempts'.signUp = 1
             /\ signUpResult'.success = o.ok
             /\ ~o.ok => signUpResult'.error = o.message
             /\ UNCHANGED << currentUser, jobs, jobsUnsubscribe, subs >>
      /\ \A ok \in BOOLEAN :
           SignOutUser(ok) =>
             /\ attempts'.signOut = 1
             /\ (signOutPc' = "ok") = ok
             /\ (signOutPc' = "failed") = ~ok
             /\ UNCHANGED << currentUser, jobs, jobsUnsubscribe, subs >>
    ]_vars

\* signInWithEmail has returned a failure while a user is signed in.
C16_Witness ==
  /\ signInPc = "returned"
  /\ ~signInResult.success
  /\ signInResult.error # NoMessage
  /\ attempts.signIn = 1
  /\ currentUser # NoUser

\* C17: while the session holds the identity the gateway holds, that
\* sign-in has been notified (nothing is pending) and its subscription is
\* active, no step cancels the subscription or clears the cache; so the
\* cleanup handleSignOut runs after its sign-out completed leaves alone a
\* sign-in that was notified after that sign-out.
C17_SignInSurvivesLateCleanup ==
  [][ ( /\ SignedIn
        /\ authCurrent = currentUser
        /\ ~pending
        /\ jobsUnsubscribe # NoSub
        /\ subs[jobsUnsubscribe].active )
      => /\ jobsUnsubscribe' = jobsUnsubscribe
         /\ subs'[jobsUnsubscribe].active
         /\ ~ClearStep
    ]_vars

\* C18 as stated: the selected job id is null or the id of a record of the
\* current cache, in every reachable state.
C18_SelectionInCache == currentJobId = NoJob \/ HasJob(jobs, currentJobId)

\* C18: every step that changes the selected job id sets it to null or to
\* the id of a record the cache holds at that step, and a clear of the
\* cache sets it to null; a push leaves the selected id as it is, whether
\* or not the pushed snapshot still has the record.
C18_SelectionInCacheWhenSet ==
  [][ /\ currentJobId' # currentJobId =>
           (currentJobId' = NoJob \/ HasJob(jobs', currentJobId'))
      /\ ClearStep => currentJobId' = NoJob
      /\ PushStep => currentJobId' = currentJobId
    ]_vars

\* A job of the cache has been selected.
C18_Witness ==
  /\ currentJobId # NoJob
  /\ HasJob(jobs, currentJobId)
  /\ notification = "Job Selected"

\* C19: in every reachable state the current view is dashboard or
\* jobDetail only if currentUser holds an identity.
C19_ProtectedViewNeedsIdentity ==
  currentView \in ProtectedViews => currentUser # NoUser

====
